---- MODULE Spec2Model ----
\* A model of yass.py: the two satisfiability searches (backtrack, dpll), the
\* Formula/Clause/Lit predicates they use, and the command-line flow that
\* calls them.  The recursion of backtrack is an explicit stack of frames.
EXTENDS Integers, Sequences, FiniteSets, TLC

\* ------------------------------------------------------------------ bounds
\* variables declared by the header line
MaxVars == 2
\* integers on the clause lines: the literals and the terminating zeros
MaxTokens == 6

\* ------------------------------------------------------------ value domain
\* Var.value is None, True or False; Lit.sign is True or False.
NoneV == "None"
TrueV == "True"
FalseV == "False"
Signs == {TrueV, FalseV}
ValueSet == {NoneV, TrueV, FalseV}

SeqsUpTo(S, n) == UNION {[1..k -> S] : k \in 0..n}

Abs(x) == IF x > 0 THEN x ELSE -x

\* the integers of the clause rows of a file with n variables: at most t of
\* them, every row ending with 0.  The literals of a row are listed by
\* non-decreasing variable index: Clause.sat and Clause.unsat range over all literals
\* of a clause and dpll reads lits[0] only when it is the only one, so the
\* order within a row is not observable.
Rows(n, t) ==
    {<<>>} \cup
    {Append(r, 0) : r \in {q \in SeqsUpTo(-n..n, t - 1) :
                              \A j \in 1..Len(q) - 1 :
                                 (q[j] # 0 /\ q[j + 1] # 0) => Abs(q[j]) <= Abs(q[j + 1])}}

\* lines 160-164: Lit(vars[abs(cvar) - 1], cvar > 0)
Lit(cvar) ==
    [var |-> Abs(cvar),
     sign |-> IF cvar > 0 THEN TrueV ELSE FalseV]

\* lines 153-165: one Clause per row, its literals those before the 0
read_formula(rows) ==
    LET row[j \in 0..Len(rows)] ==
            IF j = 0 THEN [clauses |-> <<>>, clause |-> <<>>]
            ELSE IF rows[j] = 0
                 THEN [clauses |-> Append(row[j - 1].clauses, row[j - 1].clause),
                       clause |-> <<>>]
                 ELSE [clauses |-> row[j - 1].clauses,
                       clause |-> Append(row[j - 1].clause, Lit(rows[j]))]
    IN row[Len(rows)].clauses

\* the clause lists read_formula builds
Formula(n, t) == {read_formula(rows) : rows \in Rows(n, t)}

\* Var(name): value defaults to None
Var(n) == [j \in 1..n |-> NoneV]

\* ------------------------------------------------- Lit / Clause / Formula
\* Lit.sat: self.var.value == self.sign
LitSat(val, l) == val[l.var] = l.sign

\* a Lit.unsat that takes an unvalued variable for a falsified literal
LitUnsatOrNone(val, l) == ~LitSat(val, l)

\* Lit.unsat: False when the value is None or the literal is sat
LitUnsat(val, l) == IF val[l.var] = NoneV \/ LitSat(val, l) THEN FALSE ELSE TRUE

\* a Clause.sat that takes a clause without literals for satisfied
ClauseSatVacuous(val, c) == Len(c) = 0 \/ \E j \in 1..Len(c) : LitSat(val, c[j])

\* Clause.sat: some literal is sat
ClauseSat(val, c) == \E j \in 1..Len(c) : LitSat(val, c[j])

\* Clause.unsat: no literal is "not unsat"
ClauseUnsat(val, c) == \A j \in 1..Len(c) : LitUnsat(val, c[j])

\* Formula.sat: every clause is sat
FormulaSat(val, cls) == \A j \in 1..Len(cls) : ClauseSat(val, cls[j])

\* a wrong Formula.unsat: a clause counts as falsified as soon as one of its
\* literals is
FormulaUnsatAnyLit(val, cls) ==
    \E j \in 1..Len(cls) : \E m \in 1..Len(cls[j]) : LitUnsat(val, cls[j][m])

\* a Formula.unsat that returns from its loop at the first clause
FormulaUnsatFirstOnly(val, cls) == Len(cls) > 0 /\ ClauseUnsat(val, cls[1])

\* Formula.unsat: some clause is unsat
FormulaUnsat(val, cls) == \E j \in 1..Len(cls) : ClauseUnsat(val, cls[j])

\* ------------------------------------------------------ backtrack helpers
\* the value list of line 10, tried in the wrong order
ValuesFalseFirst == <<FalseV, TrueV>>

\* for value in [True, False]
Values == <<TrueV, FalseV>>

\* for v in f.vars: if v.value == None  -- the first such index, 0 if none
FirstUnassigned(val) ==
    IF \E j \in DOMAIN val : val[j] = NoneV
    THEN CHOOSE j \in DOMAIN val :
            /\ val[j] = NoneV
            /\ \A m \in DOMAIN val : val[m] = NoneV => j <= m
    ELSE 0

\* v.value = value
Assign(val, v, x) == [val EXCEPT ![v] = x]

\* a reset of the whole Formula instead of line 20
RestoreAll(val, v) == [j \in DOMAIN val |-> NoneV]

\* a backtrack that forgets line 20
RestoreForgotten(val, v) == val

\* v.value = None
Restore(val, v) == [val EXCEPT ![v] = NoneV]

\* a backtrack that unvalues its variable on the way out of a success too
PropagateRestored(val, v) == [val EXCEPT ![v] = NoneV]

\* lines 17-18: return r, the value of v stays as it is
Propagate(val, v) == val

\* a value loop that does not advance
NextValueStuck(k) == k

\* the for loop of line 10 moving to its next value
NextValue(k) == k + 1

\* a final check that accepts every complete assignment
SolutionUnchecked(val, cls) == "vars"

\* lines 24-26: f.vars if f.sat() else None
Solution(val, cls) == IF FormulaSat(val, cls) THEN "vars" ELSE NoneV

\* a frame of backtrack: its position, its variable v, the index k of the
\* value being tried, and the values of f.vars when it was entered
Frame(val) == [pc |-> "scan", v |-> 0, k |-> 1, entry |-> val]

\* ----------------------------------------------------------- dpll helpers
\* line 38: curr_val and (curr_val != lit.sign); None and False are falsy
Conflict(curr_val, sign) == curr_val = TrueV /\ curr_val # sign

\* a filter that drops as many leading clauses as there are unit clauses
RemoveUnitsByCount(cls, units) == SubSeq(cls, Len(units) + 1, Len(cls))

\* line 47: [x for x in f.clauses if x not in unit_clauses]; a Clause has no
\* __eq__, so membership is identity, here the position in f.clauses
RemoveUnits(cls, units) ==
    LET gone == {units[u] : u \in 1..Len(units)}
        keep[j \in 0..Len(cls)] ==
            IF j = 0 THEN <<>>
            ELSE IF j \in gone THEN keep[j - 1]
                 ELSE Append(keep[j - 1], cls[j])
    IN keep[Len(cls)]

\* ------------------------------------------------------------------ state
VARIABLES
    nvars,          \* number of variables of the header line
    parsed,         \* the clause list of the input file
    flow,           \* which caller drives the searches
    value,          \* f.vars[j].value
    clauses,        \* f.clauses
    pc,             \* position of the caller
    stack,          \* frames of backtrack, innermost last
    ret,            \* value being returned to the caller, "pending" if none
    r1,             \* result of backtrack
    r2,             \* result of dpll
    i,              \* dpll: index of the clause c of the loop of line 33
    unit_clauses,   \* dpll: unit_clauses
    delegated       \* dpll reached line 50

vars == <<nvars, parsed, flow, value, clauses, pc, stack, ret, r1, r2, i,
          unit_clauses, delegated>>

\* "main": lines 187-206, both searches on the one Formula f
\* "independent": each search on its own Formula built from the same input
\* "partial": backtrack called on a Formula some of whose variables are valued
Flows == {"main", "independent", "partial"}

Top == stack[Len(stack)]
Pop == SubSeq(stack, 1, Len(stack) - 1)
SetTop(fr) == [stack EXCEPT ![Len(stack)] = fr]

\* the state after read_formula (with Var(name, value) in the partial flow),
\* for the callers F
Start(F) ==
    /\ nvars \in 0..MaxVars
    /\ parsed \in Formula(nvars, MaxTokens)
    /\ flow \in F
    /\ value \in IF flow = "partial" THEN [1..nvars -> ValueSet] ELSE {Var(nvars)}
    /\ clauses = parsed
    /\ pc = "start"
    /\ stack = <<>>
    /\ ret = "pending"
    /\ r1 = "pending"
    /\ r2 = "pending"
    /\ i = 1
    /\ unit_clauses = <<>>
    /\ delegated = FALSE

Init == Start(Flows)

\* -------------------------------------------------------------- backtrack
\* line 194: r1 = backtrack(f), the call
CallBacktrack ==
    /\ pc = "start"
    /\ stack' = <<Frame(value)>>
    /\ pc' = "backtrack"
    /\ UNCHANGED <<nvars, parsed, flow, value, clauses, ret, r1, r2, i,
                   unit_clauses, delegated>>

\* lines 7-9 and 24-26: look for an unvalued variable; without one, return
\* the verdict of f.sat()
BtScan ==
    /\ stack # <<>>
    /\ Top.pc = "scan"
    /\ IF FirstUnassigned(value) = 0
       THEN /\ stack' = Pop
            /\ ret' = Solution(value, clauses)
       ELSE /\ stack' = SetTop([Top EXCEPT !.pc = "try",
                                           !.v = FirstUnassigned(value),
                                           !.k = 1])
            /\ ret' = ret
    /\ UNCHANGED <<nvars, parsed, flow, value, clauses, pc, r1, r2, i,
                   unit_clauses, delegated>>

\* lines 10-13 and 20-21: value the variable and recurse unless a clause is
\* falsified; after the last value, unvalue it and return None
BtTry ==
    /\ stack # <<>>
    /\ Top.pc = "try"
    /\ IF Top.k > Len(Values)
       THEN /\ value' = Restore(value, Top.v)
            /\ stack' = Pop
            /\ ret' = NoneV
       ELSE /\ value' = Assign(value, Top.v, Values[Top.k])
            /\ ret' = ret
            /\ IF ~FormulaUnsat(value', clauses)
               THEN stack' = Append(SetTop([Top EXCEPT !.pc = "wait"]),
                                    Frame(value'))
               ELSE stack' = SetTop([Top EXCEPT !.k = NextValue(Top.k)])
    /\ UNCHANGED <<nvars, parsed, flow, clauses, pc, r1, r2, i, unit_clauses,
                   delegated>>

\* lines 13, 17-18: the nested call has returned r; return it unless None
BtRet ==
    /\ stack # <<>>
    /\ Top.pc = "wait"
    /\ ret # "pending"
    /\ IF ret # NoneV
       THEN /\ stack' = Pop
            /\ ret' = ret
            /\ value' = Propagate(value, Top.v)
       ELSE /\ stack' = SetTop([Top EXCEPT !.pc = "try",
                                           !.k = NextValue(Top.k)])
            /\ ret' = "pending"
            /\ value' = value
    /\ UNCHANGED <<nvars, parsed, flow, clauses, pc, r1, r2, i, unit_clauses,
                   delegated>>

\* line 194: r1 = backtrack(f), the assignment
AssignR1 ==
    /\ pc = "backtrack"
    /\ stack = <<>>
    /\ ret # "pending"
    /\ r1' = ret
    /\ ret' = "pending"
    /\ pc' = IF flow = "partial" THEN "done" ELSE "bt_done"
    /\ UNCHANGED <<nvars, parsed, flow, value, clauses, stack, r2, i,
                   unit_clauses, delegated>>

\* ------------------------------------------------------------------- dpll
\* read_formula once more: a second Formula for the second search
ReadFormula ==
    /\ pc = "bt_done"
    /\ flow = "independent"
    /\ value' = Var(nvars)
    /\ clauses' = parsed
    /\ pc' = "fresh"
    /\ UNCHANGED <<nvars, parsed, flow, stack, ret, r1, r2, i, unit_clauses,
                   delegated>>

\* line 198: r2 = dpll(f), the call; line 32
CallDpll ==
    /\ \/ pc = "bt_done" /\ flow = "main"
       \/ pc = "fresh"
    /\ pc' = "dpll"
    /\ i' = 1
    /\ unit_clauses' = <<>>
    /\ UNCHANGED <<nvars, parsed, flow, value, clauses, stack, ret, r1, r2,
                   delegated>>

\* lines 33-44: one iteration of the loop over f.clauses
DpllClause ==
    /\ pc = "dpll"
    /\ i <= Len(clauses)
    /\ LET c == clauses[i] IN
       IF Len(c) = 1
       THEN LET lit == c[1]
                curr_val == value[lit.var]
            IN IF Conflict(curr_val, lit.sign)
               THEN /\ ret' = NoneV
                    /\ pc' = "dpll_ret"
                    /\ UNCHANGED <<value, unit_clauses, i>>
               ELSE /\ value' = Assign(value, lit.var, lit.sign)
                    /\ unit_clauses' = Append(unit_clauses, i)
                    /\ i' = i + 1
                    /\ UNCHANGED <<ret, pc>>
       ELSE /\ i' = i + 1
            /\ UNCHANGED <<value, unit_clauses, ret, pc>>
    /\ UNCHANGED <<nvars, parsed, flow, clauses, stack, r1, r2, delegated>>

\* lines 47 and 50: drop the unit clauses and call backtrack
DpllDelegate ==
    /\ pc = "dpll"
    /\ i > Len(clauses)
    /\ clauses' = RemoveUnits(clauses, unit_clauses)
    /\ stack' = <<Frame(value)>>
    /\ delegated' = TRUE
    /\ pc' = "dpll_bt"
    /\ UNCHANGED <<nvars, parsed, flow, value, ret, r1, r2, i, unit_clauses>>

\* line 198: r2 = dpll(f), the assignment, after line 40 or line 50
AssignR2 ==
    /\ \/ pc = "dpll_ret"
       \/ pc = "dpll_bt" /\ stack = <<>> /\ ret # "pending"
    /\ r2' = ret
    /\ ret' = "pending"
    /\ pc' = "done"
    /\ UNCHANGED <<nvars, parsed, flow, value, clauses, stack, r1, i,
                   unit_clauses, delegated>>

Next ==
    \/ CallBacktrack
    \/ BtScan
    \/ BtTry
    \/ BtRet
    \/ AssignR1
    \/ ReadFormula
    \/ CallDpll
    \/ DpllClause
    \/ DpllDelegate
    \/ AssignR2

Spec == Init /\ [][Next]_vars

\* the callers of the program itself: every search starts from a Formula that
\* read_formula built or that the preceding search left behind
LiveInit == Start({"main", "independent"})

\* the interpreter runs the one thread of control until it returns
LiveSpec == LiveInit /\ [][Next]_vars /\ WF_vars(Next)

\* ------------------------------------------------------------- properties
AllUnassigned == \A j \in 1..nvars : value[j] = NoneV
AllAssigned == \A j \in 1..nvars : value[j] # NoneV
Unassigned(val) == Cardinality({j \in DOMAIN val : val[j] = NoneV})

\* a literal of clause c is true under val: its variable's value is its sign
TrueClause(val, c) == \E m \in 1..Len(c) : val[c[m].var] = c[m].sign

\* the complete true/false assignments that make every clause of cls true
Models(n, cls) ==
    {a \in [1..n -> Signs] : \A j \in 1..Len(cls) : TrueClause(a, cls[j])}

\* a comes no later than b in the order that tries True before False on
\* variable 1, then on variable 2, ...
LexLE(a, b) ==
    \/ a = b
    \/ \E j \in DOMAIN a : /\ a[j] = TrueV
                           /\ b[j] = FalseV
                           /\ \A m \in DOMAIN a : m < j => a[m] = b[m]

\* the input has the unit clauses {x} and {-x} for some variable x
ConflictingUnits ==
    \E x \in 1..nvars : \E j, m \in 1..Len(parsed) :
        /\ parsed[j] = <<[var |-> x, sign |-> TrueV]>>
        /\ parsed[m] = <<[var |-> x, sign |-> FalseV]>>

\* backtrack has returned from a call on a Formula with no variable valued
BacktrackReturned == flow # "partial" /\ pc = "bt_done"

\* dpll has returned from a call on a Formula with no variable valued
DpllReturned == flow = "independent" /\ pc = "done"

\* C1: on fresh copies of the same formula, backtrack and dpll give the same
\* verdict: both return an assignment or both return None.
C1_SameVerdict == DpllReturned => ((r1 = NoneV) <=> (r2 = NoneV))

\* C2: when backtrack, started with every variable unassigned, returns an
\* assignment, every clause of F has a literal whose variable's value equals
\* the literal's sign.
C2_BacktrackSound ==
    (BacktrackReturned /\ r1 = "vars") =>
        \A j \in 1..Len(parsed) : TrueClause(value, parsed[j])

C2_Witness ==
    /\ BacktrackReturned
    /\ r1 = "vars"
    /\ nvars = 2
    /\ Len(parsed) = 2
    /\ \A j \in 1..2 : Len(parsed[j]) = 2

\* C3: when dpll, started with every variable unassigned, returns an
\* assignment, every variable is assigned and every clause of the original
\* clause list, removed unit clauses included, is true.
C3_DpllSound ==
    (DpllReturned /\ r2 = "vars") =>
        /\ AllAssigned
        /\ \A j \in 1..Len(parsed) : TrueClause(value, parsed[j])

\* C4: after backtrack or dpll returns None from an all-unassigned start,
\* every variable is unassigned.
C4_NoneLeavesUnassigned ==
    /\ (BacktrackReturned /\ r1 = NoneV) => AllUnassigned
    /\ (DpllReturned /\ r2 = NoneV) => AllUnassigned

\* C5: a formula with the unit clauses {x} and {-x}, at any positions and in
\* either order, makes dpll return None in its pre-pass, without calling
\* backtrack.
C5_UnitConflict ==
    (DpllReturned /\ ConflictingUnits) => (r2 = NoneV /\ ~delegated)

\* C6: backtrack, started with every variable unassigned, returns None only
\* if no complete assignment makes every clause of F true.
C6_BacktrackComplete ==
    (BacktrackReturned /\ r1 = NoneV) => Models(nvars, parsed) = {}

C6_Witness ==
    /\ BacktrackReturned
    /\ r1 = NoneV
    /\ nvars = 2
    /\ Len(parsed) = 2
    /\ \A j \in 1..2 : Len(parsed[j]) >= 1

\* C7: the assignment backtrack returns from an all-unassigned start is the
\* first model in the search order (variables by index, True before False);
\* for the clauses {1,2} and {-1,-2} it is 1 = True, 2 = False.
C7_FirstModel ==
    (BacktrackReturned /\ r1 = "vars") =>
        /\ value \in Models(nvars, parsed)
        /\ \A b \in Models(nvars, parsed) : LexLE(value, b)

C7_Witness ==
    /\ BacktrackReturned
    /\ r1 = "vars"
    /\ nvars = 2
    /\ parsed = read_formula(<<1, 2, 0, -1, -2, 0>>)
    /\ value = <<TrueV, FalseV>>

\* every nested invocation of backtrack was entered with strictly fewer
\* unassigned variables than its caller, and no invocation is past its
\* second value
Descending ==
    /\ \A j \in 1..Len(stack) - 1 :
          Unassigned(stack[j + 1].entry) < Unassigned(stack[j].entry)
    /\ \A j \in 1..Len(stack) : stack[j].k <= Len(Values) + 1
    /\ Len(stack) <= nvars + 1

Terminated == pc = "done"

\* C8: every call of backtrack and of dpll terminates: the callers reach
\* their end, each nested invocation of backtrack has strictly fewer
\* unassigned variables than its caller, and each tries at most two values.
C8_Terminates == <>Terminated /\ []Descending

C8_Witness ==
    /\ Terminated
    /\ flow = "independent"
    /\ nvars = 2
    /\ r1 = NoneV
    /\ r2 = NoneV
    /\ delegated

\* C9: in the command-line flow the dpll run begins with every variable
\* unassigned and the full parsed clause list; nothing the backtrack run
\* wrote is visible to it.
C9_DpllStartsFresh ==
    (flow = "main" /\ pc = "dpll" /\ i = 1) =>
        (AllUnassigned /\ clauses = parsed)

\* C10: when an invocation of backtrack, top-level or nested, returns None,
\* the values of all variables are those of its entry, whatever they were.
C10_FailureRestoresEntry ==
    [][(stack # <<>> /\ Len(stack') < Len(stack) /\ ret' = NoneV)
          => value' = Top.entry]_vars

C10_Witness ==
    /\ stack # <<>>
    /\ Top.pc = "wait"
    /\ ret = NoneV
    /\ nvars = 2
    /\ Top.v = 1
    /\ value[1] # NoneV
    /\ value[2] = NoneV

\* C11: when backtrack or dpll returns an assignment every variable holds
\* True or False, and from the moment the innermost invocation found f.sat()
\* true no value changes while the success travels outward.
C11_SuccessKeepsValues ==
    /\ [](ret = "vars" => AllAssigned)
    /\ []((pc \in {"bt_done", "done"} /\ r1 = "vars" /\ r2 = "pending")
             => AllAssigned)
    /\ []((pc = "done" /\ r2 = "vars") => AllAssigned)
    /\ [][ret = "vars" => value' = value]_vars

C11_Witness ==
    /\ ret = "vars"
    /\ Len(stack) = 2
    /\ nvars = 2
    /\ Top.pc = "wait"
    /\ Len(clauses) = 2

\* a clause all of whose literals are falsified: each variable is valued and
\* its value differs from the literal's sign
Falsified(val, c) ==
    \A m \in 1..Len(c) : val[c[m].var] # NoneV /\ val[c[m].var] # c[m].sign

\* a literal of c is pending (its variable unvalued) or satisfied
OpenClause(val, c) ==
    \E m \in 1..Len(c) : val[c[m].var] = NoneV \/ val[c[m].var] = c[m].sign

C13_NestedEntryNotFalsified ==
    \A j \in 2..Len(stack) :
        \A m \in 1..Len(clauses) : ~Falsified(stack[j].entry, clauses[m])

C13_Witness ==
    /\ Len(stack) = 2
    /\ nvars = 2
    /\ stack[1].k = 2
    /\ \E m \in 1..Len(clauses) : clauses[m] = <<Lit(-1)>>
    /\ \E m \in 1..Len(clauses) : Len(clauses[m]) = 2

\* the clauses of cls that do not have exactly one literal, in their order
WithoutUnits(cls) == SelectSeq(cls, LAMBDA c : Len(c) # 1)

\* dpll has just called backtrack at line 50
Delegating == pc = "dpll_bt" /\ Len(stack) = 1 /\ Top.pc = "scan"

\* C14: when the pre-pass of dpll ends without conflict, the clause list that
\* backtrack is called with is the original one without its one-literal
\* clauses: the other clauses are all there, in their order, unchanged.
C14_OnlyUnitsRemoved == Delegating => clauses = WithoutUnits(parsed)

C14_Witness ==
    /\ Delegating
    /\ Len(parsed) = 3
    /\ Len(parsed[1]) = 0
    /\ Len(parsed[2]) = 1
    /\ Len(parsed[3]) = 2
    /\ Len(clauses) = 2

\* C15: the pre-pass of dpll is one pass over the original clause list: when
\* backtrack is called, the valued variables are exactly those of the
\* original one-literal clauses, each with the sign of its literal; a longer
\* clause forces nothing, whatever the forced values do to its literals.
C15_SinglePass ==
    (Delegating /\ flow = "independent") =>
        /\ \A x \in 1..nvars :
              value[x] # NoneV
                 <=> \E j \in 1..Len(parsed) :
                        Len(parsed[j]) = 1 /\ parsed[j][1].var = x
        /\ \A j \in 1..Len(parsed) :
              Len(parsed[j]) = 1 => value[parsed[j][1].var] = parsed[j][1].sign

\* C16: a clause without literals is falsified under every assignment, so a
\* formula that has one is decided None by backtrack and by dpll, with any
\* number of variables, zero included.
C16_EmptyClauseUnsat ==
    (\E j \in 1..Len(parsed) : parsed[j] = <<>>) =>
        /\ \A j \in 1..Len(clauses) :
              clauses[j] = <<>> =>
                 ClauseUnsat(value, clauses[j]) /\ ~ClauseSat(value, clauses[j])
        /\ r1 \in {"pending", NoneV}
        /\ r2 \in {"pending", NoneV}

C16_Witness ==
    /\ pc = "done"
    /\ flow = "independent"
    /\ \E j \in 1..Len(parsed) : parsed[j] = <<>>
    /\ \E j \in 1..Len(parsed) : Len(parsed[j]) = 2
    /\ nvars = 2
    /\ r1 = NoneV
    /\ r2 = NoneV
    /\ delegated

\* C17: backtrack never changes a variable that was valued when the top-level
\* call was made; the values forced by the pre-pass of dpll are in place all
\* through the delegated search and at its return, with either verdict.
C17_EntryValuesKept ==
    [][stack # <<>> =>
          \A x \in 1..nvars :
             stack[1].entry[x] # NoneV => value'[x] = stack[1].entry[x]]_vars

C17_Witness ==
    /\ pc = "dpll_bt"
    /\ stack = <<>>
    /\ ret = NoneV
    /\ nvars = 2
    /\ value[1] # NoneV
    /\ value[2] = NoneV
    /\ Len(clauses) >= 1

\* C18: a nested invocation of backtrack that finds no unvalued variable finds
\* f.sat() true; the return of None at line 26 is taken only by a top-level
\* call that was entered with every variable valued.
C18_FinalNoneOnlyAtTop ==
    [][(stack # <<>> /\ Top.pc = "scan" /\ FirstUnassigned(value) = 0
           /\ ret' = NoneV)
          => (Len(stack) = 1 /\ Unassigned(Top.entry) = 0)]_vars

C18_Witness ==
    /\ pc = "dpll_bt"
    /\ flow = "independent"
    /\ stack = <<>>
    /\ ret = NoneV
    /\ nvars = 2
    /\ AllAssigned

====
